---------------------------- MODULE Spec2Model ----------------------------
(***************************************************************************)
(* mapnik::util::wkt_generator (geometry_wkt_generator.hpp): the karma     *)
(* grammar that writes a geometry_type as WKT text.                        *)
(*                                                                         *)
(* Text is a sequence of one-character strings, so that delimiters can be  *)
(* counted and coordinates can be read back from the output.               *)
(* A double is an integer number of 10^-7 units (1.5 is 15000000).         *)
(***************************************************************************)
EXTENDS Integers, Sequences, FiniteSets

\* ------------------------------------------------------------------ bounds
\* Longest vertex stream of an input geometry.
MaxVerts == 3

\* Longest vertex stream drawn from the finer set of coordinates.
MaxFineVerts == 1

\* Units per 1.0 of a modelled double: seven decimal digits, one more than
\* the generator writes, so that rounding at the last written digit happens.
Unit == 10^7

\* ------------------------------------------------------- geometry and tags
\* mapnik::eGeomType as returned by geometry_type::type(); MultiPoint stands
\* for every kind the grammar has no rule for.
Point == "Point"
LineString == "LineString"
Polygon == "Polygon"
MultiPoint == "MultiPoint"
GeomTypes == {Point, LineString, Polygon, MultiPoint}

\* Vertex command tags; SEG_END is what get_vertex answers past the end.
SEG_END == "SEG_END"
SEG_MOVETO == "SEG_MOVETO"
SEG_LINETO == "SEG_LINETO"
Commands == {SEG_MOVETO, SEG_LINETO}

\* The coordinate pairs the vertices of long streams are drawn from, in
\* 10^-7 units: (0, 1.5), (1.0, -2.25), (4.05, -0.9999996).
Points == { <<0, 15000000>>, <<10000000, -22500000>>, <<40500000, -9999996>> }

\* The coordinate pairs the vertices of short streams are drawn from:
\* (0, 0), (1.5, -2.25), (0.000001, -0.0000004), (120.5, 0.1234564),
\* (0.1234566, 19.9999996), (-3.000001, 2.1), (7.00001, -0.05),
\* (-120.0, 0.0000004).
FinePoints ==
    { <<0, 0>>, <<15000000, -22500000>>, <<10, -4>>, <<1205000000, 1234564>>,
      <<1234566, 199999996>>, <<-30000010, 21000000>>, <<70000100, -500000>>,
      <<-1200000000, 4>> }

\* geometry_type::value_type: tuple<unsigned, double, double>.
value_type(P) == {[cmd |-> c, x |-> p[1], y |-> p[2]] : c \in Commands, p \in P}

RECURSIVE SeqsUpTo(_, _)
SeqsUpTo(S, n) ==
    IF n = 0 THEN {<<>>}
    ELSE LET shorter == SeqsUpTo(S, n - 1)
         IN  shorter \cup {Append(s, e) : s \in {t \in shorter : Len(t) = n - 1}, e \in S}

\* What a geometry's get_vertex answers past the end of its container: some
\* command, and the caller's coordinates left as they were (<<>>) or set to
\* some pair. The geometry is immutable, so it is one answer per geometry.
PastEnd(c) ==
    IF c = <<>>
    THEN {[cmd |-> k, xy |-> p] : k \in {SEG_END} \cup Commands, p \in {<<>>} \cup Points}
    ELSE {[cmd |-> SEG_END, xy |-> <<>>]}

\* The geometries over the vertex streams in C.
GeometriesOver(C) ==
    UNION {{[type |-> t, cont |-> c, past |-> e] : t \in GeomTypes, e \in PastEnd(c)} : c \in C}

\* geometry_type: a kind and its vertex container.
geometry_type ==
    GeometriesOver(SeqsUpTo(value_type(Points), MaxVerts)
                     \cup SeqsUpTo(value_type(FinePoints), MaxFineVerts))

\* -------------------------------------------------------------------- text
Digits == <<"0", "1", "2", "3", "4", "5", "6", "7", "8", "9">>

RECURSIVE uint_chars(_)
\* int_inserter<10>: the decimal digits of a non-negative integer.
uint_chars(n) ==
    IF n < 10 THEN <<Digits[n + 1]>>
    ELSE Append(uint_chars(n \div 10), Digits[(n % 10) + 1])

RECURSIVE zeros(_)
zeros(k) == IF k <= 0 THEN <<>> ELSE <<"0">> \o zeros(k - 1)

\* ---------------------------------------------------- coordinate_policy
\* coordinate_policy::precision.
precision == 6

trailing_zeros_kept == TRUE
\* real_policies::trailing_zeros, which coordinate_policy inherits unchanged.
trailing_zeros == FALSE

\* real_policies::force_sign, which coordinate_policy inherits unchanged.
force_sign == FALSE

RECURSIVE strip_zeros(_, _)
\* real_inserter: "remove the trailing zeros" of the fraction; the answer is
\* <<fraction, digits left>>.
strip_zeros(frac, prec) ==
    IF prec # 0 /\ frac % 10 = 0 THEN strip_zeros(frac \div 10, prec - 1)
    ELSE <<frac, prec>>

\* real_policies::fraction_part: left-pad with zeros to prec digits, then the
\* fraction's digits.
fraction_part(n, prec) ==
    zeros(prec - Len(uint_chars(n))) \o (IF precision # 0 THEN uint_chars(n) ELSE <<>>)

\* coord_type: karma::real_generator<double, coordinate_policy<double> >.
\* floatfield is fmtflags::fixed, so the value is not normalised and no
\* exponent follows: sign, integer part, '.', and the fraction rounded half
\* up to `precision` digits.
coord_type(n) ==
    LET neg  == n < 0
        m    == IF neg THEN -n ELSE n
        pexp == 10^precision
        shft == Unit \div pexp
        int0 == m \div Unit
        fr0  == ((m % Unit) + (shft \div 2)) \div shft
        over == fr0 >= pexp
        ipart == IF over THEN int0 + 1 ELSE int0
        fpart == IF over THEN fr0 - pexp ELSE fr0
        sp   == IF trailing_zeros THEN <<fpart, precision>>
                ELSE IF fpart # 0 THEN strip_zeros(fpart, precision)
                ELSE <<0, 0>>
        sign == neg /\ ~(ipart = 0 /\ sp[1] = 0)
    IN  (IF sign THEN <<"-">> ELSE IF force_sign THEN <<"+">> ELSE <<>>)
        \o uint_chars(ipart) \o <<".">> \o fraction_part(sp[1], sp[2])

\* ------------------------------------------------------------- the grammar
VARIABLES
    geom,     \* the geometry_type const& handed to generate
    pc,       \* the rule of the grammar in control
    sink,     \* the caller's output iterator: what has been delivered
    buffer,   \* the output buffer of the alternative being tried
    it,       \* position of the container iterator in coords / coords2
    _a,       \* karma::locals<unsigned> of coords2
    r         \* what generate returned: "none" while running, "true", "false"

\* A caller that serializes with one wkt_generator again and again.
VARIABLES
    prev      \* <<>>, or the one earlier call the caller has kept for comparison

\* Two threads that call generate on one wkt_generator at the same time.
VARIABLES
    calls,    \* per thread: its call's geometry, rule in control, sink, buffer, iterator, result
    locals    \* per rule context of coords2: its karma::locals<unsigned>

\* timer.hpp: the global timer_stats and what has been asked of it.
VARIABLES
    timer_stats,  \* timer_stats_::timer_stats_: metric name -> timer_metrics
    log,          \* the add calls made so far, in order: name, cpu, wall
    adding        \* per thread, its timer_stats.add call in progress

\* timer.hpp: the clocks, one progress_timer and what its user has seen.
VARIABLES
    time_now, \* what time_now() answers, in milliseconds
    clock,    \* what clock() answers, in ticks
    tm,       \* the progress_timer: its life and its members
    seen      \* its user's notes: last call, value returned, adds counted

vars == <<geom, pc, sink, buffer, it, _a, r>>

timervars == <<time_now, clock, tm, seen>>

concvars == <<calls, locals>>

statvars == <<timer_stats, log, adding>>

\* What the grammar's rules never touch.
others == <<prev, concvars, statvars, timervars>>

allvars == <<vars, others>>

NoGeom == [type |-> MultiPoint, cont |-> <<>>, past |-> [cmd |-> SEG_END, xy |-> <<>>]]

\* get_type: (int)geom.type().
get_type(g) == g.type

\* geometry_type::get_vertex(pos, &x, &y) under the coordinates *x, *y hold
\* before the call: the vertex at pos, or past the end the geometry's answer
\* with the coordinates left as they were or set to its pair.
get_vertex(g, pos, x0, y0) ==
    IF pos < Len(g.cont) THEN {g.cont[pos + 1]}
    ELSE LET p == IF g.past.xy = <<>> THEN <<x0, y0>> ELSE g.past.xy
         IN  {[cmd |-> g.past.cmd, x |-> p[1], y |-> p[2]]}

get_first_last(g) == get_vertex(g, IF Len(g.cont) = 0 THEN 0 ELSE Len(g.cont) - 1, 0, 0)
\* get_first: a value-initialised coord filled by geom.get_vertex(0, ...).
get_first(g) == get_vertex(g, 0, 0, 0)

type_any(g, t) == TRUE
\* &uint_(t)[_1 = _type(_val)]: the predicate that opens each rule.
type_is(g, t) == get_type(g) = t

LitPoint == <<"P", "o", "i", "n", "t", "(">>
LitLineString == <<"L", "i", "n", "e", "S", "t", "r", "i", "n", "g", "(">>
LitPolygon == <<"P", "o", "l", "y", "g", "o", "n", "(">>

\* point_coord = &uint_ << coord_type << lit(' ') << coord_type: any command
\* passes &uint_ and writes nothing.
point_coord(v) == coord_type(v.x) \o <<" ">> \o coord_type(v.y)

unbuffered(s, b) == s \o b
\* An alternative that failed: enable_buffering drops its buffer, the sink
\* keeps what it held.
alternative_failed(s, b) == s

\* An alternative that succeeded: buffering.buffer_copy().
buffer_copy(s, b) == s \o b

list_as_kleene(n) == FALSE
\* karma list (a % b): fails when there is no element to generate.
list_fails(n) == n = 0

list_sep_always(i) == <<",">>
\* karma list (a % b): the separator goes before every element but the first.
list_sep(i) == IF i > 1 THEN <<",">> ELSE <<>>

ring_token_no_count(cmd, n) ==
    IF cmd = SEG_MOVETO THEN <<"(">> ELSE <<",">>
\* polygon_coord's alternative under the counter's value after the action
\* _r1 += 1: "),(" or "(" for a SEG_MOVETO, "," for any other command.
ring_token(cmd, n) ==
    IF cmd = SEG_MOVETO
    THEN (IF n > 1 THEN <<")", ",", "(">> ELSE <<"(">>)
    ELSE <<",">>

\* eps[_r1 += 1], reached only behind &uint_(SEG_MOVETO).
ring_count(cmd, n) == IF cmd = SEG_MOVETO THEN n + 1 ELSE n

Threads == {1, 2}

\* A thread that has not called timer_stats.add.
NotAdding ==
    [pc |-> "idle", name |-> "", cpu |-> 0, wall |-> 0,
     metrics |-> [cpu_elapsed |-> 0, wall_clock_elapsed |-> 0]]

\* No progress_timer constructed yet.
NoTimer ==
    [life |-> "none", metric_name_ |-> "", stopped_ |-> FALSE,
     wall_clock_start_ |-> 0, wall_clock_end_ |-> 0, cpu_start_ |-> 0, cpu_end_ |-> 0]

\* op: the last call on the timer; ret: what the last read returned;
\* running: whether that call found the timer running; nadds: adds to
\* timer_stats since construction or the last restart; total: adds in all;
\* discarded: discard() called, and neither restart() nor stop() since;
\* last_cpu, last_wall: what the latest cpu_elapsed(), wall_clock_elapsed()
\* returned, if there was one since the last stop() or restart();
\* read_at: when the latest read was made.
NothingSeen ==
    [op |-> "none", ret |-> 0, running |-> FALSE, nadds |-> 0, total |-> 0,
     discarded |-> FALSE, last_cpu |-> <<>>, last_wall |-> <<>>, read_at |-> 0]

\* A thread that is not inside generate.
IdleCall == [geom |-> NoGeom, pc |-> "idle", sink |-> <<>>, buffer |-> <<>>, it |-> 1, r |-> "none"]

locals_stale(old) == old
\* karma::locals<unsigned>: a rule's locals are value-initialised in the
\* context each invocation of the rule builds, whatever the memory held.
locals_unsigned(old) == 0

Init ==
    /\ geom = NoGeom
    /\ pc = "idle"
    /\ sink = <<>>
    /\ buffer = <<>>
    /\ it = 1
    /\ _a = 0
    /\ r = "none"
    /\ prev = <<>>
    /\ calls = [t \in Threads |-> IdleCall]
    /\ locals = [k \in Threads |-> 0]
    /\ timer_stats = <<>>
    /\ log = <<>>
    /\ adding = [t \in Threads |-> NotAdding]
    /\ time_now = 0
    /\ clock = 0
    /\ tm = NoTimer
    /\ seen = NothingSeen

\* karma::generate(sink, grammar, geom) is entered with a geometry of G: wkt
\* tries point first.
GenerateIn(G) ==
    /\ pc = "idle"
    /\ \E g \in G : geom' = g
    /\ pc' = "point"
    /\ sink' = <<>>
    /\ buffer' = <<>>
    /\ r' = "none"
    /\ UNCHANGED <<it, _a>>

Generate == GenerateIn(geometry_type) /\ UNCHANGED others

\* point: the type predicate, then Point( point_coord[_1 = _first(_val)] ).
\* Nothing in it can fail once the predicate passed.
point ==
    /\ pc = "point"
    /\ IF type_is(geom, Point)
       THEN \E v \in get_first(geom) :
              LET out == LitPoint \o point_coord(v) \o <<")">>
              IN  /\ buffer' = out
                  /\ sink' = buffer_copy(sink, out)
                  /\ pc' = "done"
                  /\ r' = "true"
       ELSE /\ pc' = "linestring"
            /\ sink' = alternative_failed(sink, buffer)
            /\ UNCHANGED <<buffer, r>>
    /\ UNCHANGED <<geom, it, _a>>
    /\ UNCHANGED others

\* linestring: the type predicate, then lit("LineString(") into the buffer;
\* coords starts at the container's begin.
linestring ==
    /\ pc = "linestring"
    /\ IF type_is(geom, LineString)
       THEN /\ buffer' = LitLineString
            /\ it' = 1
            /\ pc' = "coords"
            /\ UNCHANGED sink
       ELSE /\ pc' = "polygon"
            /\ sink' = alternative_failed(sink, buffer)
            /\ UNCHANGED <<buffer, it>>
    /\ UNCHANGED <<geom, _a, r>>
    /\ UNCHANGED others

\* coords = point_coord % lit(','): one element of the list.
coords ==
    /\ pc = "coords"
    /\ it <= Len(geom.cont)
    /\ buffer' = buffer \o list_sep(it) \o point_coord(geom.cont[it])
    /\ it' = it + 1
    /\ UNCHANGED <<geom, pc, sink, _a, r>>
    /\ UNCHANGED others

\* The list is at its end: with no element it failed, linestring failed with
\* it and wkt goes on to polygon; else lit(')') ends the rule.
linestring_end ==
    /\ pc = "coords"
    /\ it > Len(geom.cont)
    /\ IF list_fails(it - 1)
       THEN /\ pc' = "polygon"
            /\ sink' = alternative_failed(sink, buffer)
            /\ UNCHANGED <<buffer, r>>
       ELSE /\ buffer' = buffer \o <<")">>
            /\ sink' = buffer_copy(sink, buffer')
            /\ pc' = "done"
            /\ r' = "true"
    /\ UNCHANGED <<geom, it, _a>>
    /\ UNCHANGED others

\* polygon: the type predicate, then lit("Polygon(") into the buffer; coords2
\* is entered with its local _a value-initialised. polygon is the last
\* alternative: when its predicate fails, generate fails.
polygon ==
    /\ pc = "polygon"
    /\ IF type_is(geom, Polygon)
       THEN /\ buffer' = LitPolygon
            /\ it' = 1
            /\ _a' = locals_unsigned(_a)
            /\ pc' = "coords2"
            /\ UNCHANGED <<sink, r>>
       ELSE /\ pc' = "done"
            /\ r' = "false"
            /\ sink' = alternative_failed(sink, buffer)
            /\ UNCHANGED <<buffer, it, _a>>
    /\ UNCHANGED geom
    /\ UNCHANGED others

\* coords2 %= *polygon_coord(_a): one vertex of the kleene star.
polygon_coord ==
    /\ pc = "coords2"
    /\ it <= Len(geom.cont)
    /\ LET v == geom.cont[it]
           n == ring_count(v.cmd, _a)
       IN  /\ _a' = n
           /\ buffer' = buffer \o ring_token(v.cmd, n)
                               \o coord_type(v.x) \o <<" ">> \o coord_type(v.y)
    /\ it' = it + 1
    /\ UNCHANGED <<geom, pc, sink, r>>
    /\ UNCHANGED others

\* The kleene star is at its end and has succeeded, whatever it wrote:
\* lit("))") ends the rule.
polygon_end ==
    /\ pc = "coords2"
    /\ it > Len(geom.cont)
    /\ buffer' = buffer \o <<")", ")">>
    /\ sink' = buffer_copy(sink, buffer')
    /\ pc' = "done"
    /\ r' = "true"
    /\ UNCHANGED <<geom, it, _a>>
    /\ UNCHANGED others

\* generate has returned; the grammar object is free for the next call.
ReturnCall ==
    /\ pc = "done"
    /\ pc' = "idle"
    /\ geom' = NoGeom
    /\ sink' = <<>>
    /\ buffer' = <<>>
    /\ it' = 1
    /\ r' = "none"
    /\ UNCHANGED _a

Return == ReturnCall /\ UNCHANGED others

Next ==
    \/ Generate
    \/ point
    \/ linestring
    \/ coords
    \/ linestring_end
    \/ polygon
    \/ polygon_coord
    \/ polygon_end
    \/ Return

Spec == Init /\ [][Next]_allvars

\* ------------------------------------------- one generator, call after call
\* Longest vertex stream of the geometries serialized again and again.
MaxReuseVerts == 2

ReusePoints == { <<10000000, -22500000>> }

ReuseGeometries ==
    {g \in GeometriesOver(SeqsUpTo(value_type(ReusePoints), MaxReuseVerts)) :
        g.past.cmd = SEG_END}

GenerateReuse == GenerateIn(ReuseGeometries) /\ UNCHANGED others

\* generate has returned and the caller keeps this call's geometry, string
\* and result, to compare a later call with.
Remember ==
    /\ prev = <<>>
    /\ prev' = <<[geom |-> geom, sink |-> sink, r |-> r, between |-> FALSE]>>
    /\ ReturnCall
    /\ UNCHANGED <<concvars, statvars, timervars>>

\* generate has returned and the caller drops the string; a kept call now has
\* another call after it.
ReturnReuse ==
    /\ prev' = IF prev = <<>> THEN prev ELSE <<[prev[1] EXCEPT !.between = TRUE]>>
    /\ ReturnCall
    /\ UNCHANGED <<concvars, statvars, timervars>>

NextReuse ==
    \/ GenerateReuse
    \/ point
    \/ linestring
    \/ coords
    \/ linestring_end
    \/ polygon
    \/ polygon_coord
    \/ polygon_end
    \/ Remember
    \/ ReturnReuse

SpecReuse == Init /\ [][NextReuse]_allvars

\* ------------------------------------------------ two calls at the same time
\* Longest vertex stream of the geometries serialized concurrently.
MaxConcVerts == 2

ConcGeometries ==
    {g \in GeometriesOver(SeqsUpTo(value_type(ReusePoints), MaxConcVerts)) :
        g.past.cmd = SEG_END /\ g.past.xy = <<>>}

context_shared(t) == 1
\* The context a thread's invocation of coords2 builds (rule::generate's
\* local context object): each invocation has its own.
context_of(t) == t

\* One step of a call c of the grammar whose coords2 counter holds a: the
\* rule in control acts as in point, linestring, coords, linestring_end,
\* polygon, polygon_coord and polygon_end. The answer is <<call, counter>>.
call_step(c, a) ==
    LET g == c.geom
    IN  CASE c.pc = "point" ->
               IF type_is(g, Point)
               THEN LET v   == CHOOSE v \in get_first(g) : TRUE
                        out == LitPoint \o point_coord(v) \o <<")">>
                    IN  <<[c EXCEPT !.buffer = out, !.sink = buffer_copy(c.sink, out),
                                    !.pc = "done", !.r = "true"], a>>
               ELSE <<[c EXCEPT !.pc = "linestring",
                                !.sink = alternative_failed(c.sink, c.buffer)], a>>
          [] c.pc = "linestring" ->
               IF type_is(g, LineString)
               THEN <<[c EXCEPT !.buffer = LitLineString, !.it = 1, !.pc = "coords"], a>>
               ELSE <<[c EXCEPT !.pc = "polygon",
                                !.sink = alternative_failed(c.sink, c.buffer)], a>>
          [] c.pc = "coords" /\ c.it <= Len(g.cont) ->
               <<[c EXCEPT !.buffer = c.buffer \o list_sep(c.it) \o point_coord(g.cont[c.it]),
                           !.it = c.it + 1], a>>
          [] c.pc = "coords" /\ c.it > Len(g.cont) ->
               IF list_fails(c.it - 1)
               THEN <<[c EXCEPT !.pc = "polygon",
                                !.sink = alternative_failed(c.sink, c.buffer)], a>>
               ELSE LET out == c.buffer \o <<")">>
                    IN  <<[c EXCEPT !.buffer = out, !.sink = buffer_copy(c.sink, out),
                                    !.pc = "done", !.r = "true"], a>>
          [] c.pc = "polygon" ->
               IF type_is(g, Polygon)
               THEN <<[c EXCEPT !.buffer = LitPolygon, !.it = 1, !.pc = "coords2"],
                      locals_unsigned(a)>>
               ELSE <<[c EXCEPT !.pc = "done", !.r = "false",
                                !.sink = alternative_failed(c.sink, c.buffer)], a>>
          [] c.pc = "coords2" /\ c.it <= Len(g.cont) ->
               LET v == g.cont[c.it]
                   n == ring_count(v.cmd, a)
               IN  <<[c EXCEPT !.buffer = c.buffer \o ring_token(v.cmd, n)
                                            \o coord_type(v.x) \o <<" ">> \o coord_type(v.y),
                               !.it = c.it + 1], n>>
          [] c.pc = "coords2" /\ c.it > Len(g.cont) ->
               LET out == c.buffer \o <<")", ")">>
               IN  <<[c EXCEPT !.buffer = out, !.sink = buffer_copy(c.sink, out),
                               !.pc = "done", !.r = "true"], a>>

\* A thread enters generate with its own geometry and its own output.
Start(t) ==
    /\ calls[t].pc = "idle"
    /\ \E g \in ConcGeometries :
         calls' = [calls EXCEPT ![t] = [IdleCall EXCEPT !.geom = g, !.pc = "point"]]
    /\ UNCHANGED <<locals, vars, prev, statvars, timervars>>

\* A thread's call takes its next step, on the counter of its own context.
Step(t) ==
    /\ calls[t].pc \notin {"idle", "done"}
    /\ LET k   == context_of(t)
           res == call_step(calls[t], locals[k])
       IN  /\ calls' = [calls EXCEPT ![t] = res[1]]
           /\ locals' = [locals EXCEPT ![k] = res[2]]
    /\ UNCHANGED <<vars, prev, statvars, timervars>>

NextConc == \E t \in Threads : Start(t) \/ Step(t)

SpecConc == Init /\ [][NextConc]_allvars

\* The call c run to its end with no other call about.
RECURSIVE run_alone(_, _)
run_alone(c, a) ==
    IF c.pc = "done" THEN c
    ELSE LET res == call_step(c, a) IN run_alone(res[1], res[2])

\* ------------------------------------------------------------- timer_stats
\* Most add calls in a run.
MaxAdds == 3

\* Largest duration handed to add, in milliseconds.
MaxElapsed == 1

MetricNames == {"render", "load"}

\* A value-initialised timer_metrics, as unordered_map::operator[] inserts
\* for a name it does not hold.
NoMetrics == [cpu_elapsed |-> 0, wall_clock_elapsed |-> 0]

\* timer_stats_[metric_name] read: the entry, inserted first if missing.
stats_entry(stats, name) ==
    IF name \in DOMAIN stats THEN stats
    ELSE [n \in DOMAIN stats \cup {name} |-> IF n = name THEN NoMetrics ELSE stats[n]]

\* timer_stats_[metric_name] = metrics.
stats_store(stats, name, metrics) ==
    [n \in DOMAIN stats \cup {name} |-> IF n = name THEN metrics ELSE stats[n]]

metrics_overwritten(metrics, cpu, wall) ==
    [cpu_elapsed |-> cpu, wall_clock_elapsed |-> wall]
\* metrics.cpu_elapsed += cpu_elapsed; metrics.wall_clock_elapsed +=
\* wall_clock_elapsed.
metrics_plus(metrics, cpu, wall) ==
    [cpu_elapsed |-> metrics.cpu_elapsed + cpu,
     wall_clock_elapsed |-> metrics.wall_clock_elapsed + wall]

\* timer_stats_::add, start to end.
stats_add(stats, name, cpu, wall) ==
    LET held == stats_entry(stats, name)
    IN  stats_store(held, name, metrics_plus(held[name], cpu, wall))

\* One thread calls timer_stats.add(name, cpu, wall).
Add ==
    /\ Len(log) < MaxAdds
    /\ \E name \in MetricNames, cpu \in 0..MaxElapsed, wall \in 0..MaxElapsed :
         /\ timer_stats' = stats_add(timer_stats, name, cpu, wall)
         /\ log' = Append(log, [name |-> name, cpu |-> cpu, wall |-> wall])
    /\ UNCHANGED <<adding, vars, prev, concvars, timervars>>

NextStats == Add

SpecStats == Init /\ [][NextStats]_allvars

\* ------------------------------------------- two threads, one timer_stats
\* timer_stats is one global object and add takes no lock: the calls of two
\* threads interleave between add's statements.

\* timer_metrics metrics = timer_stats_[metric_name]: thread t enters add
\* and copies the name's entry, inserting it first if missing.
AddRead(t) ==
    /\ adding[t].pc = "idle"
    /\ \E name \in MetricNames, cpu \in 0..MaxElapsed, wall \in 0..MaxElapsed :
         LET held == stats_entry(timer_stats, name)
         IN  /\ timer_stats' = held
             /\ adding' = [adding EXCEPT ![t] = [pc |-> "read", name |-> name, cpu |-> cpu,
                                                 wall |-> wall, metrics |-> held[name]]]
             /\ log' = Append(log, [name |-> name, cpu |-> cpu, wall |-> wall])
    /\ UNCHANGED <<vars, prev, concvars, timervars>>

\* metrics += ...; timer_stats_[metric_name] = metrics: thread t adds to its
\* copy and stores it back.
AddStore(t) ==
    /\ adding[t].pc = "read"
    /\ timer_stats' = stats_store(timer_stats, adding[t].name,
                                  metrics_plus(adding[t].metrics, adding[t].cpu, adding[t].wall))
    /\ adding' = [adding EXCEPT ![t].pc = "done"]
    /\ UNCHANGED <<log, vars, prev, concvars, timervars>>

NextStatsConc == \E t \in Threads : AddRead(t) \/ AddStore(t)

SpecStatsConc == Init /\ [][NextStatsConc]_allvars

\* ---------------------------------------------------- timer, progress_timer
\* Latest time the clock reaches, in milliseconds.
MaxClock == 2

\* Most adds to timer_stats one progress_timer makes in a run.
MaxTimerAdds == 2

\* <ctime>'s CLOCKS_PER_SEC, ticks of clock() per second.
CLOCKS_PER_SEC == 1000000

\* Milliseconds per second: time_now() answers in seconds.
WallUnit == 10^3

\* What the members a constructor leaves unset may hold.
Leftovers == {0, MaxClock + 1}

\* timer::restart.
timer_restart(t, w, c) ==
    [t EXCEPT !.stopped_ = FALSE, !.wall_clock_start_ = w, !.cpu_start_ = c]

\* timer::stop.
timer_stop(t, w, c) ==
    [t EXCEPT !.stopped_ = TRUE, !.cpu_end_ = c, !.wall_clock_end_ = w]

\* The value timer::cpu_elapsed returns: ticks to milliseconds.
cpu_value(t) == ((t.cpu_end_ - t.cpu_start_) * 1000) \div CLOCKS_PER_SEC

\* The value timer::wall_clock_elapsed returns: seconds to milliseconds.
wall_value(t) == ((t.wall_clock_end_ - t.wall_clock_start_) * 1000) \div WallUnit

\* progress_timer::stop: timer::stop(), then timer_stats.add with what
\* cpu_elapsed() and wall_clock_elapsed() return on the stopped timer. The
\* answer is <<timer, timer_stats>>.
progress_stop(t, stats, w, c) ==
    LET u == timer_stop(t, w, c)
    IN  <<u, stats_add(stats, u.metric_name_, cpu_value(u), wall_value(u))>>

read_always_stops(t) == TRUE
\* if (! stopped_) in cpu_elapsed and wall_clock_elapsed.
read_must_stop(t) == ~t.stopped_

dtor_never_stops(t) == FALSE
\* if (! stopped_) in ~progress_timer.
dtor_must_stop(t) == ~t.stopped_

discard_nothing(t) == t
\* progress_timer::discard.
discard(t) == [t EXCEPT !.stopped_ = TRUE]

\* The clocks advance: a millisecond passes, of processor time or not.
Tick ==
    /\ time_now < MaxClock
    /\ time_now' = time_now + 1
    /\ clock' \in {clock, clock + CLOCKS_PER_SEC \div 1000}
    /\ UNCHANGED <<tm, seen, vars, prev, concvars, statvars>>

\* progress_timer(metric_name): timer() calls restart(); the end times are
\* left as the memory held them.
Construct ==
    /\ tm.life = "none"
    /\ \E name \in MetricNames, left \in Leftovers :
         tm' = timer_restart([NoTimer EXCEPT !.life = "alive", !.metric_name_ = name,
                                             !.wall_clock_end_ = left,
                                             !.cpu_end_ = left * (CLOCKS_PER_SEC \div 1000)],
                             time_now, clock)
    /\ seen' = [NothingSeen EXCEPT !.op = "construct", !.total = seen.total]
    /\ UNCHANGED <<time_now, clock, timer_stats, log, adding, vars, prev, concvars>>

\* timer::restart().
Restart ==
    /\ tm.life = "alive"
    /\ tm' = timer_restart(tm, time_now, clock)
    /\ seen' = [seen EXCEPT !.op = "restart", !.running = ~tm.stopped_, !.nadds = 0,
                            !.discarded = FALSE, !.last_cpu = <<>>, !.last_wall = <<>>]
    /\ UNCHANGED <<time_now, clock, timer_stats, log, adding, vars, prev, concvars>>

\* progress_timer::stop(), called by the timer's user.
Stop ==
    /\ tm.life = "alive"
    /\ seen.total < MaxTimerAdds
    /\ LET res == progress_stop(tm, timer_stats, time_now, clock)
       IN  /\ tm' = res[1]
           /\ timer_stats' = res[2]
    /\ seen' = [seen EXCEPT !.op = "stop", !.running = ~tm.stopped_,
                            !.nadds = @ + 1, !.total = @ + 1, !.discarded = FALSE,
                            !.last_cpu = <<>>, !.last_wall = <<>>]
    /\ UNCHANGED <<time_now, clock, log, adding, vars, prev, concvars>>

\* timer::cpu_elapsed() or timer::wall_clock_elapsed(): a running timer is
\* stopped first, through the virtual stop(), which is progress_timer's.
Read(which) ==
    /\ read_must_stop(tm) => seen.total < MaxTimerAdds
    /\ LET stops == read_must_stop(tm)
           res   == IF stops THEN progress_stop(tm, timer_stats, time_now, clock)
                    ELSE <<tm, timer_stats>>
           value == IF which = "cpu_elapsed" THEN cpu_value(res[1]) ELSE wall_value(res[1])
       IN  /\ tm' = res[1]
           /\ timer_stats' = res[2]
           /\ seen' = [seen EXCEPT !.op = which, !.ret = value, !.running = ~tm.stopped_,
                                   !.nadds = IF stops THEN @ + 1 ELSE @,
                                   !.total = IF stops THEN @ + 1 ELSE @,
                                   !.last_cpu = IF which = "cpu_elapsed" THEN <<value>> ELSE @,
                                   !.last_wall = IF which = "cpu_elapsed" THEN @ ELSE <<value>>,
                                   !.read_at = time_now]
    /\ UNCHANGED <<time_now, clock, log, adding, vars, prev, concvars>>

CpuElapsed ==
    /\ tm.life = "alive"
    /\ Read("cpu_elapsed")

WallClockElapsed ==
    /\ tm.life = "alive"
    /\ Read("wall_clock_elapsed")

\* progress_timer::discard().
Discard ==
    /\ tm.life = "alive"
    /\ tm' = discard(tm)
    /\ seen' = [seen EXCEPT !.op = "discard", !.running = ~tm.stopped_, !.discarded = TRUE]
    /\ UNCHANGED <<time_now, clock, timer_stats, log, adding, vars, prev, concvars>>

\* ~progress_timer(): a timer still running is stopped.
Destroy ==
    /\ tm.life = "alive"
    /\ dtor_must_stop(tm) => seen.total < MaxTimerAdds
    /\ LET stops == dtor_must_stop(tm)
           res   == IF stops THEN progress_stop(tm, timer_stats, time_now, clock)
                    ELSE <<tm, timer_stats>>
       IN  /\ tm' = [res[1] EXCEPT !.life = "destroyed"]
           /\ timer_stats' = res[2]
           /\ seen' = [seen EXCEPT !.op = "destroy", !.running = ~tm.stopped_,
                                   !.nadds = IF stops THEN @ + 1 ELSE @,
                                   !.total = IF stops THEN @ + 1 ELSE @]
    /\ UNCHANGED <<time_now, clock, log, adding, vars, prev, concvars>>

NextTimer ==
    \/ Tick
    \/ Construct
    \/ Restart
    \/ Stop
    \/ CpuElapsed
    \/ WallClockElapsed
    \/ Discard
    \/ Destroy

SpecTimer == Init /\ [][NextTimer]_allvars

\* ------------------------------------------------- reading the output back
StartsWith(s, p) == Len(s) >= Len(p) /\ SubSeq(s, 1, Len(p)) = p

EndsWith(s, p) == Len(s) >= Len(p) /\ SubSeq(s, Len(s) - Len(p) + 1, Len(s)) = p

\* The positions at which p occurs in s.
Occurrences(s, p) == {i \in 1..(Len(s) - Len(p) + 1) : SubSeq(s, i, i + Len(p) - 1) = p}

Count(s, p) == Cardinality(Occurrences(s, p))

DigitChars == {Digits[i] : i \in 1..10}

NumChars == DigitChars \cup {".", "-", "+"}

RECURSIVE NumbersFrom(_, _, _, _)
\* The scan behind Numbers: cur is the number being read at position i, acc
\* the numbers read before it.
NumbersFrom(s, i, cur, acc) ==
    IF i > Len(s) THEN (IF cur = <<>> THEN acc ELSE Append(acc, cur))
    ELSE IF s[i] \in NumChars THEN NumbersFrom(s, i + 1, Append(cur, s[i]), acc)
    ELSE NumbersFrom(s, i + 1, <<>>, IF cur = <<>> THEN acc ELSE Append(acc, cur))

\* The numbers written in s, in order: its maximal runs of number characters.
Numbers(s) == NumbersFrom(s, 1, <<>>, <<>>)

DigitValue(c) == CHOOSE d \in 0..9 : Digits[d + 1] = c

RECURSIVE DigitsValue(_)
DigitsValue(ds) ==
    IF ds = <<>> THEN 0
    ELSE 10 * DigitsValue(SubSeq(ds, 1, Len(ds) - 1)) + DigitValue(ds[Len(ds)])

AllDigits(ds) == ds # <<>> /\ \A i \in 1..Len(ds) : ds[i] \in DigitChars

\* A written number taken apart: an optional '-', the digits before the one
\* '.', the digits after it. WellFormed says it has that shape.
Unsigned(t) == IF t # <<>> /\ t[1] = "-" THEN Tail(t) ELSE t

DotAt(t) == CHOOSE i \in 0..Len(t) : (i = 0 /\ Count(t, <<".">>) = 0) \/ (i > 0 /\ t[i] = ".")

IntDigits(t) == SubSeq(Unsigned(t), 1, DotAt(Unsigned(t)) - 1)

FracDigits(t) == SubSeq(Unsigned(t), DotAt(Unsigned(t)) + 1, Len(Unsigned(t)))

WellFormed(t) ==
    /\ Count(t, <<".">>) = 1
    /\ AllDigits(IntDigits(t))
    /\ AllDigits(FracDigits(t))

\* The value a well-formed written number denotes, in 10^-6 units.
Micro(t) ==
    LET f == FracDigits(t)
        v == DigitsValue(IntDigits(t)) * 10^6 + DigitsValue(f) * 10^(6 - Len(f))
    IN  IF t[1] = "-" THEN -v ELSE v

\* n (10^-7 units) rounded half away from zero to 10^-6 units.
Rounded(n) == IF n < 0 THEN -((-n + 5) \div 10) ELSE (n + 5) \div 10

\* The coordinates a rule is to write, x then y, vertex by vertex.
RECURSIVE CoordsOf(_)
CoordsOf(c) == IF c = <<>> THEN <<>> ELSE <<c[1].x, c[1].y>> \o CoordsOf(Tail(c))

RECURSIVE JoinPairs(_)
\* "x y" of each vertex in order, with a ',' between neighbours.
JoinPairs(c) ==
    IF c = <<>> THEN <<>>
    ELSE coord_type(c[1].x) \o <<" ">> \o coord_type(c[1].y)
         \o (IF Len(c) > 1 THEN <<",">> ELSE <<>>) \o JoinPairs(Tail(c))

NumMoveTo(c) == Cardinality({i \in 1..Len(c) : c[i].cmd = SEG_MOVETO})

Done == pc = "done"

\* ------------------------------------------------------------------ claims
Supported == {Point, LineString, Polygon}

Lit(t) == IF t = Point THEN LitPoint ELSE IF t = LineString THEN LitLineString ELSE LitPolygon

\* C1: a Polygon with at least one vertex and n >= 1 MoveTo vertices is
\* written with n ring groups: "Polygon((" opens it, "))" ends it, and
\* "),(" occurs exactly n - 1 times.
C1_RingGroups ==
    (Done /\ geom.type = Polygon /\ Len(geom.cont) >= 1 /\ NumMoveTo(geom.cont) >= 1)
    => /\ r = "true"
       /\ StartsWith(sink, LitPolygon \o <<"(">>)
       /\ EndsWith(sink, <<")", ")">>)
       /\ Count(sink, <<")", ",", "(">>) = NumMoveTo(geom.cont) - 1
       /\ Count(sink, <<"(">>) = NumMoveTo(geom.cont) + 1

\* C2: generate on a Polygon with no vertex fails and writes nothing.
C2_EmptyPolygonRejected ==
    (Done /\ geom.type = Polygon /\ Len(geom.cont) = 0)
    => (r = "false" /\ sink = <<>>)

\* C3: all or nothing: unless generate has succeeded the caller's output is
\* empty, also once a rule has written its prefix and then failed.
C3_AllOrNothing == (r # "true") => sink = <<>>

\* A failed call whose linestring rule had written "LineString(" before its
\* list failed.
C3_Witness == Done /\ r = "false" /\ buffer = LitLineString /\ sink = <<>>

\* C4: generate on a Point with no vertex fails and writes nothing.
C4_EmptyPointRejected ==
    (Done /\ geom.type = Point /\ Len(geom.cont) = 0)
    => (r = "false" /\ sink = <<>>)

\* C5: a LineString with no vertex fails and writes nothing; a LineString
\* with one vertex is written "LineString(x y)" with no comma.
C5_LineStringZeroOne ==
    (Done /\ geom.type = LineString)
    => /\ Len(geom.cont) = 0 => (r = "false" /\ sink = <<>>)
       /\ Len(geom.cont) = 1 =>
            /\ r = "true"
            /\ sink = LitLineString \o coord_type(geom.cont[1].x) \o <<" ">>
                        \o coord_type(geom.cont[1].y) \o <<")">>
            /\ Count(sink, <<",">>) = 0

C5_Witness == Done /\ geom.type = LineString /\ Len(geom.cont) = 0 /\ r = "false"

\* C6: only the rule of the geometry's kind writes: whatever is in the
\* buffer or delivered starts with that kind's name, and a geometry of a
\* kind without a rule fails with nothing written by any rule.
C6_TypeDispatch ==
    /\ \A t \in Supported :
         (StartsWith(buffer, Lit(t)) \/ StartsWith(sink, Lit(t))) => geom.type = t
    /\ (buffer # <<>> \/ sink # <<>>) => geom.type \in Supported
    /\ sink # <<>> => StartsWith(sink, Lit(geom.type))
    /\ (Done /\ r = "true") => (geom.type \in Supported /\ sink # <<>>)
    /\ (Done /\ geom.type \notin Supported) => (r = "false" /\ sink = <<>> /\ buffer = <<>>)

C6_Witness == Done /\ geom.type = MultiPoint /\ Len(geom.cont) >= 1 /\ r = "false"

\* C7: a Polygon whose first vertex is not a MoveTo is rejected: generate
\* fails and writes nothing.
C7_MalformedRingRejected ==
    (Done /\ geom.type = Polygon /\ Len(geom.cont) >= 1 /\ geom.cont[1].cmd # SEG_MOVETO)
    => (r = "false" /\ sink = <<>>)

\* The coordinates the output is to hold: of vertex 0 for a Point, of every
\* vertex in order otherwise.
Written == IF geom.type = Point THEN CoordsOf(SubSeq(geom.cont, 1, 1)) ELSE CoordsOf(geom.cont)

C9_LineStringOrder ==
    (Done /\ geom.type = LineString /\ Len(geom.cont) >= 1)
    => /\ r = "true"
       /\ sink = LitLineString \o JoinPairs(geom.cont) \o <<")">>
       /\ Count(sink, <<",">>) = Len(geom.cont) - 1
       /\ Len(Numbers(sink)) = 2 * Len(geom.cont)
       /\ \A i \in 1..Len(Numbers(sink)) : Micro(Numbers(sink)[i]) = Rounded(Written[i])

\* A LineString of several different vertices, a MoveTo not at its head.
C9_Witness ==
    /\ Done /\ geom.type = LineString /\ Len(geom.cont) >= 3 /\ r = "true"
    /\ geom.cont[1].cmd = SEG_LINETO /\ geom.cont[3].cmd = SEG_MOVETO
    /\ Rounded(geom.cont[1].x) # Rounded(geom.cont[2].x)
    /\ Rounded(geom.cont[2].x) # Rounded(geom.cont[3].x)

\* C10: a Point with at least one vertex is written "Point(x y)" with the
\* coordinates of vertex 0: one pair, one space, no comma, whatever the
\* command of vertex 0 and however many vertices follow.
C10_PointFirstVertex ==
    (Done /\ geom.type = Point /\ Len(geom.cont) >= 1)
    => /\ r = "true"
       /\ sink = LitPoint \o coord_type(geom.cont[1].x) \o <<" ">>
                   \o coord_type(geom.cont[1].y) \o <<")">>
       /\ Count(sink, <<",">>) = 0
       /\ Count(sink, <<" ">>) = 1
       /\ Len(Numbers(sink)) = 2
       /\ Micro(Numbers(sink)[1]) = Rounded(geom.cont[1].x)
       /\ Micro(Numbers(sink)[2]) = Rounded(geom.cont[1].y)

\* A Point of several vertices whose vertex 0 is a LineTo and differs from
\* the last vertex.
C10_Witness ==
    /\ Done /\ geom.type = Point /\ Len(geom.cont) >= 2 /\ r = "true"
    /\ geom.cont[1].cmd = SEG_LINETO
    /\ Rounded(geom.cont[1].x) # Rounded(geom.cont[Len(geom.cont)].x)

\* The text coords2 is to have written for the vertices c: before each
\* vertex's "x y" goes "(" for the first MoveTo of c, "),(" for a later
\* MoveTo, "," for any other command.
RECURSIVE RingText(_, _)
RingText(c, n) ==
    IF n = 0 THEN <<>>
    ELSE RingText(c, n - 1)
         \o (IF c[n].cmd # SEG_MOVETO THEN <<",">>
             ELSE IF \E i \in 1..(n - 1) : c[i].cmd = SEG_MOVETO THEN <<")", ",", "(">>
             ELSE <<"(">>)
         \o coord_type(c[n].x) \o <<" ">> \o coord_type(c[n].y)

\* C15: while coords2 walks a Polygon, the ring counter is the number of
\* MoveTo vertices consumed so far (0 before the first vertex), and what is
\* written is, for every vertex consumed and in order, its token ("(" for
\* the first MoveTo, "),(" for a later one, "," otherwise) and its pair.
C15_RingCounter ==
    (pc = "coords2")
    => /\ it \in 1..(Len(geom.cont) + 1)
       /\ _a = NumMoveTo(SubSeq(geom.cont, 1, it - 1))
       /\ buffer = LitPolygon \o RingText(geom.cont, it - 1)
       /\ Len(Numbers(buffer)) = 2 * (it - 1)

\* Three vertices consumed: a MoveTo, a LineTo, a second MoveTo.
C15_Witness ==
    /\ pc = "coords2" /\ it = 4 /\ _a = 2
    /\ geom.cont[1].cmd = SEG_MOVETO
    /\ geom.cont[2].cmd = SEG_LINETO
    /\ geom.cont[3].cmd = SEG_MOVETO

\* C11: the same geometry serialized again with the same generator, other
\* geometries serialized in between, gives the same result and the same
\* string; coords2 starts every call with its ring counter at 0, so that a
\* polygon's first MoveTo is written "(" and only the later ones "),(".
C11_SameTwice ==
    /\ (Done /\ prev # <<>> /\ prev[1].geom = geom)
         => (r = prev[1].r /\ sink = prev[1].sink)
    /\ (pc = "coords2" /\ it = 1) => _a = 0
    /\ (Done /\ geom.type = Polygon /\ NumMoveTo(geom.cont) >= 1)
         => Count(sink, <<")", ",", "(">>) = NumMoveTo(geom.cont) - 1

\* A polygon with a MoveTo serialized a second time, another call in between.
C11_Witness ==
    /\ Done /\ prev # <<>> /\ prev[1].geom = geom /\ prev[1].between
    /\ geom.type = Polygon /\ NumMoveTo(geom.cont) >= 1
    /\ r = "true"

\* C12: of two generate calls interleaved step by step, each ends with the
\* result and the string it has when run alone; for a polygon that is the
\* text its own MoveTo vertices call for.
C12_AsAlone ==
    \A t \in Threads :
        calls[t].pc = "done"
        => LET alone == run_alone([IdleCall EXCEPT !.geom = calls[t].geom, !.pc = "point"], 0)
           IN  /\ calls[t].r = alone.r
               /\ calls[t].sink = alone.sink
               /\ calls[t].geom.type = Polygon
                    => calls[t].sink = LitPolygon
                                         \o RingText(calls[t].geom.cont, Len(calls[t].geom.cont))
                                         \o <<")", ")">>

\* The second thread's polygon of two rings is done while the first thread's
\* polygon is between its two vertices, the second of them a MoveTo.
C12_Witness ==
    /\ calls[1].pc = "coords2" /\ calls[1].it = 2 /\ Len(calls[1].geom.cont) = 2
    /\ calls[1].geom.cont[2].cmd = SEG_MOVETO
    /\ calls[2].pc = "done" /\ calls[2].geom.type = Polygon
    /\ NumMoveTo(calls[2].geom.cont) = 2

\* The sum of field f over the calls of log made with the name.
RECURSIVE LogSum(_, _, _)
LogSum(l, name, f) ==
    IF l = <<>> THEN 0
    ELSE LogSum(Tail(l), name, f) + (IF l[1].name = name THEN l[1][f] ELSE 0)

\* C13: after any sequence of add calls on empty statistics, the names held
\* are the names added, and each name's cpu and wall totals are the sums of
\* the cpu and wall arguments of the calls made with that name.
C13_TotalsAreSums ==
    /\ DOMAIN timer_stats = {log[i].name : i \in 1..Len(log)}
    /\ \A name \in DOMAIN timer_stats :
         /\ timer_stats[name].cpu_elapsed = LogSum(log, name, "cpu")
         /\ timer_stats[name].wall_clock_elapsed = LogSum(log, name, "wall")

\* Two calls for one name and one for the other, cpu and wall different.
C13_Witness ==
    /\ Len(log) = 3
    /\ log[1].name = "render" /\ log[2].name = "load" /\ log[3].name = "render"
    /\ log[1].cpu = 1 /\ log[1].wall = 0 /\ log[3].cpu = 1 /\ log[3].wall = 1
    /\ log[2].cpu = 0 /\ log[2].wall = 1
    /\ timer_stats["render"] = [cpu_elapsed |-> 2, wall_clock_elapsed |-> 1]
    /\ timer_stats["load"] = [cpu_elapsed |-> 0, wall_clock_elapsed |-> 1]

\* ------------------------------------------------------------ timer claims
\* What timer_stats holds under a name: zero where nothing was added.
Held(stats, name) == IF name \in DOMAIN stats THEN stats[name] ELSE NoMetrics

\* A step that is one of the calls named: the clock advancing leaves the
\* user's notes alone.
Called(ops) == seen' # seen /\ seen'.op \in ops

ReadOps == {"cpu_elapsed", "wall_clock_elapsed"}

C16_AtMostOneAdd == seen.nadds <= 1

\* C18: cpu_elapsed() and wall_clock_elapsed() on a running timer stop it
\* first, the end times being the clocks of that moment; on a stopped timer
\* they change nothing and return what the same call returned before, however
\* far the clock has advanced; restart() leaves the timer running with the
\* clocks of that moment as its start times.
C18_ReadsStopOnce ==
    [][/\ (Called(ReadOps) /\ ~tm.stopped_) =>
            /\ tm'.stopped_
            /\ tm'.wall_clock_end_ = time_now
            /\ tm'.cpu_end_ = clock
       /\ (Called(ReadOps) /\ tm.stopped_) =>
            /\ tm' = tm
            /\ timer_stats' = timer_stats
            /\ (seen'.op = "cpu_elapsed" /\ seen.last_cpu # <<>>) =>
                  seen'.ret = seen.last_cpu[1]
            /\ (seen'.op = "wall_clock_elapsed" /\ seen.last_wall # <<>>) =>
                  seen'.ret = seen.last_wall[1]
       /\ Called({"restart"}) =>
            /\ ~tm'.stopped_
            /\ tm'.wall_clock_start_ = time_now
            /\ tm'.cpu_start_ = clock]_allvars

\* Both values read on a timer stopped a millisecond in, the later read made
\* after the clock had advanced further, and the values those of the stop.
C18_Witness ==
    /\ tm.life = "alive" /\ tm.stopped_
    /\ seen.op \in ReadOps /\ ~seen.running
    /\ seen.last_cpu # <<>> /\ seen.last_wall = <<1>>
    /\ tm.wall_clock_start_ = 0 /\ tm.wall_clock_end_ = 1
    /\ seen.read_at > tm.wall_clock_end_

\* C19: discard() changes nothing in timer_stats, and after it neither reads
\* nor the destruction add to timer_stats, until restart() or stop() is
\* called.
C19_DiscardedAddsNothing ==
    [][seen'.discarded => timer_stats' = timer_stats]_allvars

\* A timer discarded while running, read after that, then destroyed, and
\* timer_stats still empty.
C19_Witness ==
    /\ tm.life = "destroyed"
    /\ seen.discarded /\ seen.op = "destroy"
    /\ seen.last_cpu # <<>> /\ seen.last_wall # <<>>
    /\ seen.total = 0 /\ timer_stats = <<>>
    /\ time_now > tm.wall_clock_start_

\* C17: when two threads have each called timer_stats.add, at the same time,
\* every name's totals are the sums over both calls, as after either
\* sequential order: no duration is lost.
C17_NoDurationLost ==
    (\A t \in Threads : adding[t].pc = "done") =>
        \A name \in MetricNames :
            /\ Held(timer_stats, name).cpu_elapsed = LogSum(log, name, "cpu")
            /\ Held(timer_stats, name).wall_clock_elapsed = LogSum(log, name, "wall")

====
